---- MODULE Spec2Model ----
(***************************************************************************)
(* getrx: a process-wide controller registry (Get / GetRxCache), the       *)
(* reference-counting hook built on it (useGet) and the reactive cell      *)
(* (Obs).                                                                  *)
(*                                                                         *)
(* Spec       the registry called directly (put, find, exists, delete)     *)
(*            together with components going through either useGet.        *)
(* SpecUseGet components going through useGet(ControllerClass, options)    *)
(*            only: render, effect, effect cleanup.                        *)
(* SpecHooks  components going through useGet(tag, factory, {persist})     *)
(*            only: render, effect, effect cleanup.                        *)
(* SpecSerial the runs of SpecHooks without a commit that both unmounts    *)
(*            one component and mounts another.                            *)
(* SpecObs    one Obs cell, its listeners and the calls they make while    *)
(*            they run.                                                    *)
(* SpecObsThrow  the same, with listeners that may throw.                  *)
(* SpecCache  the tag-based registry called directly, with well-formed and *)
(*            malformed tags, and controllers with lifecycle hooks that    *)
(*            return, throw or return a promise.                           *)
(* SpecLife   useGet(ControllerClass, options) and Get.delete with a       *)
(*            controller class that has synchronous lifecycle hooks.       *)
(* SpecKey    the derivation of the key from class name and tag option.    *)
(*                                                                         *)
(* SpecPut    components going through useGetPut(tag, factory, options) of *)
(*            the hooks over Get only.                                     *)
(* SpecCachePut  components going through useGetPut of the hooks over      *)
(*            GetRxCache only.                                             *)
(* SpecFactory   the tag-based registry called directly with factories     *)
(*            that return a controller, return undefined or throw, and a   *)
(*            controller class whose hooks are methods that use this.      *)
(*                                                                         *)
(* In every specification but SpecFactory each factory / constructor       *)
(* returns a controller object (GetRxControllerFactory<T extends           *)
(* GetRxController> = () => T).                                            *)
(***************************************************************************)
EXTENDS Integers, Sequences, FiniteSets, TLC

VARIABLES
    registry,     \* Get.registry: Map<string, unknown>, a function on the keys present
    nextInst,     \* identity of the next object a constructor / factory returns
    refCounts,    \* hooks.ts refCounts: Map<string, number>, a function on the keys present
    comps,        \* per component: position in its life, props, memoised controller
    made,         \* history: factory invocations per key since the last delete of the key
    given,        \* history: entries put returned per key since the last delete of the key
    persistSeen,  \* history: some effect mounted on the key with persist = true
    last,         \* history: the operation that ran last, its key and, of a release, its persist flag
    life,         \* lifecycle hooks: promises pending, and history of the hook calls
    currentValue, \* Obs.currentValue
    eventHandlers,\* Obs.eventHandlers
    stack,        \* Obs: the calls in progress, innermost last
    received,     \* history: per listener, the values it was called with, in order
    writes,       \* history: the values written by set, in the order set was entered
    cellLog       \* history: facts about subscriptions and broadcasts

regVars == <<registry, nextInst, refCounts, comps, made, given, persistSeen, last, life>>
obsVars == <<currentValue, eventHandlers, stack, received, writes, cellLog>>
vars == <<registry, nextInst, refCounts, comps, made, given, persistSeen, last, life,
          currentValue, eventHandlers, stack, received, writes, cellLog>>

(***************************************************************************)
(* Bounds                                                                  *)
(***************************************************************************)
\* Controller objects ever constructed in one run, and calls of a factory
\* on one key between two deletes of the key.
MaxInst == 3
\* Components in the React tree.
NumComps == 2

\* Listeners (callbacks) that subscribe to the cell.
NumListeners == 2
\* Calls of set, on and off in one run.
MaxCalls == 4

\* JavaScript undefined: Map.get of a missing key, a cell without a value.
Undefined == 0

Inst == 1..MaxInst
Comps == 1..NumComps
Listeners == 1..NumListeners
\* Values of the cell's type T other than undefined.
Vals == {1, 2}

\* (class name, tag suffix) pairs the callers use; "" is a class without a
\* name, resp. no tag option.
Targets == { <<"", "">>, <<"Todo", "a">> }

(***************************************************************************)
(* Key derivation                                                          *)
(***************************************************************************)
\* Get.buildTag
buildTag(name, suffix) ==
    LET base == IF name # "" THEN name ELSE "AnonymousController"
    IN  IF suffix # "" THEN base \o "-" \o suffix ELSE base

\* A hook that always appends the separator and the tag option.
useGetTagAlwaysSuffix(name, suffix) ==
    LET baseTag == IF name # "" THEN name ELSE "AnonymousController"
    IN  baseTag \o "-" \o suffix

\* useGet: const baseTag = ...; const tag = ...
useGetTag(name, suffix) ==
    LET baseTag == IF name # "" THEN name ELSE "AnonymousController"
    IN  IF suffix # "" THEN baseTag \o "-" \o suffix ELSE baseTag

\* A JavaScript value passed as a tag: its typeof, its truthiness and its
\* text.
Str(s) == [type |-> "string", truthy |-> s # "", str |-> s]

\* The tags the callers of the tag-based registry pass: two keys, the empty
\* string and a number.
RawTags ==
    { Str("Ctl"), Str("Todo-a"), Str(""),
      [type |-> "number", truthy |-> TRUE, str |-> "7"] }

\* A makeKey that only checks the type of the tag.
makeKeyThrowsOnType(raw) == raw.type # "string"

\* makeKey: if (!tag || typeof tag !== "string") throw
makeKeyThrows(raw) == ~raw.truthy \/ raw.type # "string"

\* Get.makeKey: TRUE when the tag passes the check (no throw).
makeKeyOk(tag) == ~makeKeyThrows(Str(tag))

Keys == { buildTag(t[1], t[2]) : t \in Targets }

\* (class name, tag suffix) pairs of the callers whose controller class
\* defines onInit and onClose, both synchronous (class Sync), or defines
\* neither (class Todo).
LifeTargets == { <<"Sync", "">>, <<"Todo", "a">> }

LifeKeys == { buildTag(t[1], t[2]) : t \in LifeTargets }

\* The tags of the callers that pass their own factory: class User has
\* onInit and onClose written as methods that write this.<cell>, class Todo
\* has no hooks.
FactoryKeys == {"User", "Todo-a"}

\* Every key some caller uses.
AllKeys ==
    Keys \cup LifeKeys \cup FactoryKeys
         \cup { raw.str : raw \in { r \in RawTags : r.type = "string" /\ r.truthy } }

(***************************************************************************)
(* Map<K, V>                                                               *)
(***************************************************************************)
MapHas(m, k) == k \in DOMAIN m
MapGet(m, k) == IF k \in DOMAIN m THEN m[k] ELSE Undefined
MapSet(m, k, v) == [x \in (DOMAIN m) \cup {k} |-> IF x = k THEN v ELSE m[x]]
MapDelete(m, k) == [x \in (DOMAIN m) \ {k} |-> m[x]]
EmptyMap == [x \in {} |-> Undefined]

\* if (existing) / if (cached): an object is truthy, undefined is not.
Truthy(v) == v # Undefined

(***************************************************************************)
(* Lifecycle hooks                                                         *)
(*                                                                         *)
(* life.pending   the promises returned by a hook and not settled yet, as  *)
(*                <<instance, hook>>                                       *)
(* life.failed    history: the hooks of which a call threw or returned a   *)
(*                promise that rejected                                    *)
(* life.reported  history: the hooks of which a failure was passed to      *)
(*                console.error                                            *)
(* life.unhandled history: the hooks of which a failure rejected a promise *)
(*                that nobody handles                                      *)
(* life.init, life.close   history: calls of onInit / onClose per instance *)
(* life.unstored  history: the hooks called while the registry did not     *)
(*                hold the instance                                        *)
(* life.wrote     the hook calls, as <<instance, hook>>, that wrote a cell  *)
(*                of the instance through this                             *)
(* life.out       the hook call the operation that ran last made           *)
(* life.raised    the operation that ran last threw to its caller          *)
(***************************************************************************)
\* GetRxController.onInit? / onClose?: the controllers stored under the key
\* define the hooks (typeof fn === "function").
Hooked(key) == key \in {"Ctl", "Sync", "User"}

\* What one call of a hook does: return, throw, or return a promise (which
\* settles later); "absent" when the controller has no such hook. The hooks
\* of the controllers under Sync are not async. The hooks of the controllers
\* under User are methods whose body is this.<cell>.value = v ("writes").
HookOutcomes(key) ==
    IF key = "Ctl" THEN {"returns", "throws", "promise"}
    ELSE IF key = "Sync" THEN {"returns", "throws"}
    ELSE IF key = "User" THEN {"writes"}
    ELSE {"absent"}

NoCall == [h |-> "", i |-> Undefined, out |-> "absent"]

NoLife ==
    [pending |-> {}, failed |-> {}, reported |-> {}, unhandled |-> {},
     init |-> [i \in Inst |-> 0], close |-> [i \in Inst |-> 0],
     unstored |-> {}, wrote |-> {}, out |-> NoCall, raised |-> FALSE]

\* An operation that calls no hook returned.
Returned(lf) == [lf EXCEPT !.out = NoCall, !.raised = FALSE]

\* A callMaybeAsync that is not async: the throw of fn() reaches the caller.
PropagatesThrow(out) == out = "throws"

\* callMaybeAsync is an async function: a throw of fn() rejects the promise
\* it returns and never reaches the caller.
Propagates(out) == FALSE

\* callMaybeAsync(instance.onInit): the method is read off the instance and
\* called as fn(), a plain function call: its this is undefined.
Receiver(i) == Undefined

\* A hook whose body writes this.<cell>: with the instance as this it writes
\* the cell and returns, with this undefined the property access throws a
\* TypeError.
Ran(i, out) ==
    IF out = "writes"
    THEN IF Receiver(i) = i THEN "returns" ELSE "throws"
    ELSE out

\* Get.callMaybeAsync(instance.onInit / cached.onClose) up to its first
\* await, for the hook h of instance i, reg being the registry at the call:
\* fn() is called; a throw rejects the promise of callMaybeAsync, which no caller
\* handles; a promise returned is awaited with .catch(console.error).
callMaybeAsync(lf, reg, key, i, h, out) ==
    IF out = "absent"
    THEN Returned(lf)
    ELSE [lf EXCEPT
            !.init = IF h = "onInit" THEN [@ EXCEPT ![i] = @ + 1] ELSE @,
            !.close = IF h = "onClose" THEN [@ EXCEPT ![i] = @ + 1] ELSE @,
            !.unstored = IF MapGet(reg, key) = i THEN @ ELSE @ \cup {h},
            !.wrote = IF out = "writes" /\ Receiver(i) = i
                      THEN @ \cup {<<i, h>>} ELSE @,
            !.pending = IF Ran(i, out) = "promise" THEN @ \cup {<<i, h>>} ELSE @,
            !.failed = IF Ran(i, out) = "throws" THEN @ \cup {h} ELSE @,
            !.unhandled = IF Ran(i, out) = "throws" /\ ~Propagates(Ran(i, out))
                          THEN @ \cup {h} ELSE @,
            !.out = [h |-> h, i |-> i, out |-> Ran(i, out)],
            !.raised = Propagates(Ran(i, out))]

(***************************************************************************)
(* Get: the registry                                                       *)
(***************************************************************************)
\* Get.find
GetFind(key) == MapGet(registry, key)

\* Get.exists
GetExists(key) == MapHas(registry, key)

\* Get.put: if (existing) return existing; put reuses what the key holds if
\* it is truthy.
Reuses(key) == Truthy(MapGet(registry, key))

\* A put that constructs on every call and overwrites the stored entry.
GetPutAlwaysConstructs(key, ret) ==
    /\ nextInst <= MaxInst
    /\ ret = nextInst
    /\ registry' = MapSet(registry, key, nextInst)
    /\ nextInst' = nextInst + 1
    /\ made' = [made EXCEPT ![key] = @ + 1]
    /\ given' = [given EXCEPT ![key] = @ \cup {ret}]
    /\ life' = Returned(life)

\* A put that calls onInit of the entry it returns on every call.
GetPutInitOnReuse(key, ret) ==
    LET existing == MapGet(registry, key)
    IN  IF Truthy(existing)
        THEN /\ ret = existing
             /\ given' = [given EXCEPT ![key] = @ \cup {ret}]
             /\ \E out \in HookOutcomes(key) :
                   life' = callMaybeAsync(life, registry, key, existing, "onInit", out)
             /\ UNCHANGED <<registry, nextInst, made>>
        ELSE /\ nextInst <= MaxInst
             /\ ret = nextInst
             /\ registry' = MapSet(registry, key, nextInst)
             /\ nextInst' = nextInst + 1
             /\ made' = [made EXCEPT ![key] = @ + 1]
             /\ given' = [given EXCEPT ![key] = @ \cup {ret}]
             /\ \E out \in HookOutcomes(key) :
                   life' = callMaybeAsync(life, MapSet(registry, key, nextInst),
                                          key, nextInst, "onInit", out)

\* Get.put after makeKey: ret is the value put returns.
GetPut(key, ret) ==
    LET existing == MapGet(registry, key)
    IN  IF Truthy(existing)
        THEN /\ ret = existing
             /\ given' = [given EXCEPT ![key] = @ \cup {ret}]
             /\ life' = Returned(life)
             /\ UNCHANGED <<registry, nextInst, made>>
        ELSE /\ nextInst <= MaxInst
             /\ ret = nextInst
             /\ registry' = MapSet(registry, key, nextInst)
             /\ nextInst' = nextInst + 1
             /\ made' = [made EXCEPT ![key] = @ + 1]
             /\ \E out \in HookOutcomes(key) :
                   /\ life' = callMaybeAsync(life, MapSet(registry, key, nextInst),
                                             key, nextInst, "onInit", out)
                   /\ given' = IF Propagates(out)
                               THEN given
                               ELSE [given EXCEPT ![key] = @ \cup {ret}]

\* What the factory passed to put does when it is called: return a
\* controller, return undefined, or throw.
Factories == {"object", "undefined", "throws"}

\* The factory threw: put ends there, the error reaches the caller.
FactoryThrew(lf) ==
    [lf EXCEPT !.failed = @ \cup {"factory"},
               !.out = [h |-> "factory", i |-> Undefined, out |-> "throws"],
               !.raised = TRUE]

\* instance.onInit with instance undefined: the property access throws a
\* TypeError in put, before callMaybeAsync is called.
NoInstance(lf) ==
    [lf EXCEPT !.failed = @ \cup {"instance.onInit"},
               !.out = [h |-> "instance.onInit", i |-> Undefined, out |-> "throws"],
               !.raised = TRUE]

\* A put that stores a placeholder under the key before it runs the factory.
GetPutWithReserved(key, f, ret) ==
    IF Truthy(MapGet(registry, key)) \/ f = "object"
    THEN GetPut(key, ret)
    ELSE /\ made[key] < MaxInst
         /\ ret = Undefined
         /\ made' = [made EXCEPT ![key] = @ + 1]
         /\ registry' = MapSet(registry, key, Undefined)
         /\ life' = IF f = "throws" THEN FactoryThrew(life) ELSE NoInstance(life)
         /\ UNCHANGED <<nextInst, given>>

\* GetRxCache.put(tag, factory) after makeKey, f being what the factory does
\* if it is called: const instance = factory(); registry.set(key, instance);
\* callMaybeAsync(instance.onInit); return instance.
GetPutWith(key, f, ret) ==
    IF Truthy(MapGet(registry, key)) \/ f = "object"
    THEN GetPut(key, ret)
    ELSE /\ made[key] < MaxInst
         /\ ret = Undefined
         /\ made' = [made EXCEPT ![key] = @ + 1]
         /\ IF f = "throws"
            THEN /\ life' = FactoryThrew(life)
                 /\ UNCHANGED registry
            ELSE /\ registry' = MapSet(registry, key, Undefined)
                 /\ life' = NoInstance(life)
         /\ UNCHANGED <<nextInst, given>>

\* A delete that closes the controller but leaves it in the map.
GetDeleteKeepsEntry(key) ==
    LET cached == MapGet(registry, key)
    IN  /\ made' = [made EXCEPT ![key] = 0]
        /\ given' = [given EXCEPT ![key] = {}]
        /\ IF Truthy(cached)
           THEN \E out \in HookOutcomes(key) :
                   life' = callMaybeAsync(life, registry, key, cached, "onClose", out)
           ELSE life' = Returned(life)
        /\ UNCHANGED registry

\* A delete that awaits the promise of onClose before it removes the entry.
GetDeleteAwaitsClose(key) ==
    LET cached == MapGet(registry, key)
    IN  /\ made' = [made EXCEPT ![key] = 0]
        /\ given' = [given EXCEPT ![key] = {}]
        /\ IF Truthy(cached)
           THEN \E out \in HookOutcomes(key) :
                   /\ life' = callMaybeAsync(life, registry, key, cached, "onClose", out)
                   /\ registry' = IF out = "promise"
                                  THEN registry
                                  ELSE MapDelete(registry, key)
           ELSE /\ life' = Returned(life)
                /\ UNCHANGED registry

\* A delete without the test of cached: cached.onClose of undefined throws.
GetDeleteUnguarded(key) ==
    LET cached == MapGet(registry, key)
    IN  /\ made' = [made EXCEPT ![key] = 0]
        /\ given' = [given EXCEPT ![key] = {}]
        /\ IF Truthy(cached)
           THEN \E out \in HookOutcomes(key) :
                   /\ life' = callMaybeAsync(life, registry, key, cached, "onClose", out)
                   /\ registry' = MapDelete(registry, key)
           ELSE /\ life' = [life EXCEPT !.out = NoCall, !.raised = TRUE]
                /\ UNCHANGED registry

\* A delete that cancels the pending onInit of the entry it removes.
GetDeleteCancelsInit(key) ==
    LET cached == MapGet(registry, key)
    IN  /\ made' = [made EXCEPT ![key] = 0]
        /\ given' = [given EXCEPT ![key] = {}]
        /\ IF Truthy(cached)
           THEN \E out \in HookOutcomes(key) :
                   /\ life' = [callMaybeAsync(life, registry, key, cached, "onClose", out)
                                  EXCEPT !.pending = @ \ {<<cached, "onInit">>}]
                   /\ registry' = MapDelete(registry, key)
           ELSE /\ life' = Returned(life)
                /\ UNCHANGED registry

\* Get.delete after makeKey.
GetDelete(key) ==
    LET cached == MapGet(registry, key)
    IN  /\ made' = [made EXCEPT ![key] = 0]
        /\ given' = [given EXCEPT ![key] = {}]
        /\ IF Truthy(cached)
           THEN \E out \in HookOutcomes(key) :
                   /\ life' = callMaybeAsync(life, registry, key, cached, "onClose", out)
                   /\ registry' = IF Propagates(out)
                                  THEN registry
                                  ELSE MapDelete(registry, key)
           ELSE /\ life' = Returned(life)
                /\ UNCHANGED registry

(***************************************************************************)
(* Direct calls of the registry                                            *)
(***************************************************************************)
Note(op, key, flag) == [op |-> op, key |-> key, flag |-> flag, type |-> "string"]

\* Get.put(ControllerClass, {tag})
Put(name, suffix) ==
    LET key == buildTag(name, suffix)
    IN  /\ makeKeyOk(key)
        /\ \E ret \in Inst :
              /\ GetPut(key, ret)
              /\ last' = Note("put", key, FALSE)
        /\ UNCHANGED <<refCounts, comps, persistSeen>>
        /\ UNCHANGED obsVars

\* Get.find(ControllerClass, {tag})
Find(name, suffix) ==
    LET key == buildTag(name, suffix)
    IN  /\ makeKeyOk(key)
        /\ GetFind(key) \in Inst \cup {Undefined}
        /\ UNCHANGED regVars
        /\ UNCHANGED obsVars

\* Get.exists(ControllerClass, {tag})
Exists(name, suffix) ==
    LET key == buildTag(name, suffix)
    IN  /\ makeKeyOk(key)
        /\ GetExists(key) \in BOOLEAN
        /\ UNCHANGED regVars
        /\ UNCHANGED obsVars

\* Get.delete(ControllerClass, {tag})
Delete(name, suffix) ==
    LET key == buildTag(name, suffix)
    IN  /\ makeKeyOk(key)
        /\ GetDelete(key)
        /\ last' = Note("delete", key, FALSE)
        /\ UNCHANGED <<nextInst, refCounts, comps, persistSeen>>
        /\ UNCHANGED obsVars

(***************************************************************************)
(* GetRxCache: the registry keyed by a tag the caller passes               *)
(***************************************************************************)
NoteRaw(op, raw) == [op |-> op, key |-> raw.str, flag |-> FALSE, type |-> raw.type]

\* makeKey threw: the operation ends there, the error reaches the caller.
Throws(op, raw) ==
    /\ last' = NoteRaw(op, raw)
    /\ life' = [life EXCEPT !.out = NoCall, !.raised = TRUE]
    /\ UNCHANGED <<registry, nextInst, refCounts, comps, made, given, persistSeen>>

\* GetRxCache.put(tag, factory)
PutTag(raw) ==
    /\ IF makeKeyThrows(raw)
       THEN Throws("put", raw)
       ELSE /\ \E ret \in Inst : GetPut(raw.str, ret)
            /\ last' = NoteRaw("put", raw)
            /\ UNCHANGED <<refCounts, comps, persistSeen>>
    /\ UNCHANGED obsVars

\* GetRxCache.put(tag, factory) with a factory that does f.
PutFactory(raw, f) ==
    /\ IF makeKeyThrows(raw)
       THEN Throws("put", raw)
       ELSE /\ \E ret \in Inst \cup {Undefined} : GetPutWith(raw.str, f, ret)
            /\ last' = NoteRaw("put", raw)
            /\ UNCHANGED <<refCounts, comps, persistSeen>>
    /\ UNCHANGED obsVars

\* GetRxCache.find(tag)
FindTag(raw) ==
    /\ IF makeKeyThrows(raw)
       THEN Throws("find", raw)
       ELSE /\ GetFind(raw.str) \in Inst \cup {Undefined}
            /\ UNCHANGED regVars
    /\ UNCHANGED obsVars

\* exists(tag): makeKey, then registry.has
ExistsTag(raw) ==
    /\ IF makeKeyThrows(raw)
       THEN Throws("exists", raw)
       ELSE /\ GetExists(raw.str) \in BOOLEAN
            /\ UNCHANGED regVars
    /\ UNCHANGED obsVars

\* GetRxCache.delete(tag)
DeleteTag(raw) ==
    /\ IF makeKeyThrows(raw)
       THEN Throws("delete", raw)
       ELSE /\ GetDelete(raw.str)
            /\ last' = NoteRaw("delete", raw)
            /\ UNCHANGED <<nextInst, refCounts, comps, persistSeen>>
    /\ UNCHANGED obsVars

\* The promise a hook returned settles: callMaybeAsync resumes after its
\* await; a rejection went to console.error through .catch.
Settle(i, h, ok) ==
    /\ <<i, h>> \in life.pending
    /\ life' = [life EXCEPT
                  !.pending = @ \ {<<i, h>>},
                  !.failed = IF ok THEN @ ELSE @ \cup {h},
                  !.reported = IF ok THEN @ ELSE @ \cup {h},
                  !.out = [h |-> h, i |-> i, out |-> IF ok THEN "resolves" ELSE "rejects"],
                  !.raised = FALSE]
    /\ last' = Note("settle", "", FALSE)
    /\ UNCHANGED <<registry, nextInst, refCounts, comps, made, given, persistSeen>>
    /\ UNCHANGED obsVars

Hooks == {"onInit", "onClose"}

(***************************************************************************)
(* useGet: the hook, one action per callback React runs                    *)
(***************************************************************************)
\* props: the class name and the tag option the component passes to
\* useGet(ControllerClass, {tag}).
Rendered(tag, key, persist, ctrl) ==
    [pc |-> "rendered", tag |-> tag, key |-> key, persist |-> persist, ctrl |-> ctrl,
     props |-> <<"", "">>]

Unmounted ==
    [pc |-> "idle", tag |-> "", key |-> "", persist |-> FALSE, ctrl |-> Undefined,
     props |-> <<"", "">>]

\* useGet(ControllerClass, {tag}): the render of a component that is not in
\* the tree yet; useMemo runs Get.put.
RenderUseGet(c, name, suffix) ==
    LET tag == useGetTag(name, suffix)
        key == buildTag(name, suffix)
    IN  /\ comps[c].pc = "idle"
        /\ makeKeyOk(key)
        /\ \E ret \in Inst :
              /\ GetPut(key, ret)
              /\ comps' = [comps EXCEPT ![c] =
                              [Rendered(tag, key, FALSE, ret) EXCEPT
                                  !.props = <<name, suffix>>]]
              /\ last' = Note("render", key, FALSE)
        /\ UNCHANGED <<refCounts, persistSeen>>
        /\ UNCHANGED obsVars

\* useGet(tag, factory, {persist}): the render of a component that is not in
\* the tree yet; useMemo runs Get.exists, then Get.find or Get.put.
RenderUseGetTag(c, tag, persist) ==
    /\ comps[c].pc = "idle"
    /\ makeKeyOk(tag)
    /\ IF GetExists(tag)
       THEN /\ comps' = [comps EXCEPT ![c] = Rendered(tag, tag, persist, GetFind(tag))]
            /\ last' = Note("render", tag, FALSE)
            /\ UNCHANGED <<registry, nextInst, made, given, life>>
       ELSE \E ret \in Inst :
              /\ GetPut(tag, ret)
              /\ comps' = [comps EXCEPT ![c] = Rendered(tag, tag, persist, ret)]
              /\ last' = Note("render", tag, FALSE)
    /\ UNCHANGED <<refCounts, persistSeen>>
    /\ UNCHANGED obsVars

\* An effect that records one reference, however many there are.
MountCountsOnce(c) ==
    /\ comps[c].pc = "rendered"
    /\ refCounts' = MapSet(refCounts, comps[c].tag, 1)
    /\ comps' = [comps EXCEPT ![c].pc = "mounted"]
    /\ persistSeen' = [persistSeen EXCEPT ![comps[c].tag] = @ \/ comps[c].persist]
    /\ last' = Note("bind", comps[c].tag, FALSE)
    /\ UNCHANGED <<registry, nextInst, made, given, life>>
    /\ UNCHANGED obsVars

\* useGet, the effect: refCounts.set(tag, (refCounts.get(tag) ?? 0) + 1)
Mount(c) ==
    LET tag == comps[c].tag
        old == IF MapHas(refCounts, tag) THEN refCounts[tag] ELSE 0
    IN  /\ comps[c].pc = "rendered"
        /\ refCounts' = MapSet(refCounts, tag, old + 1)
        /\ comps' = [comps EXCEPT ![c].pc = "mounted"]
        /\ persistSeen' = [persistSeen EXCEPT ![tag] = @ \/ comps[c].persist]
        /\ last' = Note("bind", tag, FALSE)
        /\ UNCHANGED <<registry, nextInst, made, given, life>>
        /\ UNCHANGED obsVars

\* A cleanup that forgets the count record but never evicts.
CleanupNeverEvicts(c) ==
    /\ refCounts' = MapDelete(refCounts, comps[c].tag)
    /\ UNCHANGED <<registry, made, given, life>>

\* A cleanup that keeps the entry once any binding of the key was persistent.
CleanupStickyPersist(c) ==
    LET tag == comps[c].tag
        current == (IF MapHas(refCounts, tag) THEN refCounts[tag] ELSE 1) - 1
    IN  IF current <= 0
        THEN /\ refCounts' = MapDelete(refCounts, tag)
             /\ IF ~persistSeen[tag]
                THEN GetDelete(comps[c].key)
                ELSE UNCHANGED <<registry, made, given, life>>
        ELSE /\ refCounts' = MapSet(refCounts, tag, current)
             /\ UNCHANGED <<registry, made, given, life>>

\* useGet, the effect's cleanup, with the persist of the render that made it.
Cleanup(c) ==
    LET tag == comps[c].tag
        current == (IF MapHas(refCounts, tag) THEN refCounts[tag] ELSE 1) - 1
    IN  IF current <= 0
        THEN /\ refCounts' = MapDelete(refCounts, tag)
             /\ IF ~comps[c].persist
                THEN GetDelete(comps[c].key)
                ELSE UNCHANGED <<registry, made, given, life>>
        ELSE /\ refCounts' = MapSet(refCounts, tag, current)
             /\ UNCHANGED <<registry, made, given, life>>

\* The component leaves the tree: React runs the effect's cleanup.
Unmount(c) ==
    /\ comps[c].pc = "mounted"
    /\ Cleanup(c)
    /\ comps' = [comps EXCEPT ![c] = Unmounted]
    /\ last' = Note("release", comps[c].tag, comps[c].persist)
    /\ UNCHANGED <<nextInst, persistSeen>>
    /\ UNCHANGED obsVars

\* The components currently bound to (mounted on) a key.
Bound(key) == { c \in Comps : comps[c].pc = "mounted" /\ comps[c].tag = key }

(***************************************************************************)
(* useGetPut: the hook without a count, one action per callback React runs *)
(*                                                                         *)
(* A component is idle (not in the tree), rendered (its effect not run     *)
(* yet), mounted, or stale (re-rendered with changed dependencies, the     *)
(* effect not re-run yet). fresh tells whether the factory passed to a     *)
(* re-render is a new function object (an inline arrow function) or the    *)
(* one of the render before.                                               *)
(***************************************************************************)
\* useGetPut of hooks over Get: the first render; useMemo runs Get.exists,
\* then Get.find or Get.put.
PutRender(c, tag, persist) ==
    /\ comps[c].pc = "idle"
    /\ makeKeyOk(tag)
    /\ IF GetExists(tag)
       THEN /\ comps' = [comps EXCEPT ![c] = Rendered(tag, tag, persist, GetFind(tag))]
            /\ life' = Returned(life)
            /\ UNCHANGED <<registry, nextInst, made, given>>
       ELSE \E ret \in Inst :
              /\ GetPut(tag, ret)
              /\ comps' = [comps EXCEPT ![c] = Rendered(tag, tag, persist, ret)]
    /\ last' = Note("render", tag, persist)
    /\ UNCHANGED <<refCounts, persistSeen>>
    /\ UNCHANGED obsVars

\* useGetPut over Get: the effect runs; with persist it returns no cleanup.
PutEffect(c) ==
    /\ comps[c].pc = "rendered"
    /\ comps' = [comps EXCEPT ![c].pc = "mounted"]
    /\ life' = Returned(life)
    /\ last' = Note("effect", comps[c].tag, comps[c].persist)
    /\ UNCHANGED <<registry, nextInst, refCounts, made, given, persistSeen>>
    /\ UNCHANGED obsVars

\* useGetPut over Get: a re-render with the same tag and persist.
\* useCallback(factory, []) keeps the factory of the first render, so the
\* dependencies of useMemo and useEffect are unchanged, whatever is passed.
PutRerender(c, fresh) ==
    /\ comps[c].pc = "mounted"
    /\ life' = Returned(life)
    /\ last' = Note("rerender", comps[c].tag, fresh)
    /\ UNCHANGED <<registry, nextInst, refCounts, comps, made, given, persistSeen>>
    /\ UNCHANGED obsVars

\* useGetPut over Get, the effect's cleanup: Get.delete(tag), unless the
\* effect returned early because of persist.
PutCleanup(c) ==
    IF ~comps[c].persist
    THEN GetDelete(comps[c].tag)
    ELSE /\ life' = Returned(life)
         /\ UNCHANGED <<registry, made, given>>

\* useGetPut over Get: the component leaves the tree.
PutUnmount(c) ==
    /\ comps[c].pc = "mounted"
    /\ PutCleanup(c)
    /\ comps' = [comps EXCEPT ![c] = Unmounted]
    /\ last' = Note("unmount", comps[c].tag, comps[c].persist)
    /\ UNCHANGED <<nextInst, refCounts, persistSeen>>
    /\ UNCHANGED obsVars

\* useGetPut over GetRxCache: the first render; useMemo runs GetRxCache.put.
CachePutRender(c, tag, persist) ==
    /\ comps[c].pc = "idle"
    /\ makeKeyOk(tag)
    /\ \E ret \in Inst :
          /\ GetPut(tag, ret)
          /\ comps' = [comps EXCEPT ![c] = Rendered(tag, tag, persist, ret)]
    /\ last' = Note("render", tag, persist)
    /\ UNCHANGED <<refCounts, persistSeen>>
    /\ UNCHANGED obsVars

\* useGetPut over GetRxCache: the effect runs (there is none with persist).
CachePutEffect(c) ==
    /\ comps[c].pc = "rendered"
    /\ comps' = [comps EXCEPT ![c].pc = "mounted"]
    /\ life' = Returned(life)
    /\ last' = Note("effect", comps[c].tag, comps[c].persist)
    /\ UNCHANGED <<registry, nextInst, refCounts, made, given, persistSeen>>
    /\ UNCHANGED obsVars

\* useCallback(factory, [factory]) returns the factory passed: the
\* dependencies [tag, factoryCallback, persist] change when it is a new
\* function.
DepsChanged(fresh) == fresh

\* useGetPut over GetRxCache: a re-render with the same tag and persist.
\* With changed dependencies useMemo runs GetRxCache.put again and the
\* effect (if there is one) is due to be re-run.
CachePutRerender(c, fresh) ==
    /\ comps[c].pc = "mounted"
    /\ IF DepsChanged(fresh)
       THEN \E ret \in Inst :
              /\ GetPut(comps[c].tag, ret)
              /\ comps' = [comps EXCEPT
                              ![c].ctrl = ret,
                              ![c].pc = IF comps[c].persist THEN "mounted" ELSE "stale"]
       ELSE /\ life' = Returned(life)
            /\ UNCHANGED <<registry, nextInst, comps, made, given>>
    /\ last' = Note("rerender", comps[c].tag, fresh)
    /\ UNCHANGED <<refCounts, persistSeen>>
    /\ UNCHANGED obsVars

\* useGetPut over GetRxCache: the commit after a re-render with changed
\* dependencies; React runs the cleanup of the old effect,
\* GetRxCache.delete(tag), then the new effect.
CachePutRecommit(c) ==
    /\ comps[c].pc = "stale"
    /\ GetDelete(comps[c].tag)
    /\ comps' = [comps EXCEPT ![c].pc = "mounted"]
    /\ last' = Note("recommit", comps[c].tag, comps[c].persist)
    /\ UNCHANGED <<nextInst, refCounts, persistSeen>>
    /\ UNCHANGED obsVars

\* useGetPut over GetRxCache: the component leaves the tree; the cleanup of
\* its effect (if there is one) runs GetRxCache.delete(tag).
CachePutUnmount(c) ==
    /\ comps[c].pc \in {"mounted", "stale"}
    /\ IF ~comps[c].persist
       THEN GetDelete(comps[c].tag)
       ELSE /\ life' = Returned(life)
            /\ UNCHANGED <<registry, made, given>>
    /\ comps' = [comps EXCEPT ![c] = Unmounted]
    /\ last' = Note("unmount", comps[c].tag, comps[c].persist)
    /\ UNCHANGED <<nextInst, refCounts, persistSeen>>
    /\ UNCHANGED obsVars

InitRegistry ==
    /\ registry = EmptyMap
    /\ nextInst = 1
    /\ refCounts = EmptyMap
    /\ comps = [c \in Comps |-> Unmounted]
    /\ made = [k \in AllKeys |-> 0]
    /\ given = [k \in AllKeys |-> {}]
    /\ persistSeen = [k \in AllKeys |-> FALSE]
    /\ last = Note("none", "", FALSE)
    /\ life = NoLife

(***************************************************************************)
(* Obs: the reactive cell                                                  *)
(*                                                                         *)
(* set, on and off are called by the program when no call is in progress   *)
(* (stack empty) or by a listener while it runs (a "cb" frame on top).     *)
(* A "set" frame is a forEach in progress: arr is the array object it      *)
(* iterates, len the length read when it began, idx the elements visited,  *)
(* shared tells whether arr still is the object in this.eventHandlers.     *)
(* snap, called and early are history: the handlers when the broadcast     *)
(* began, the listeners it has called, and the listeners that were         *)
(* unsubscribed during the broadcast before it reached them.               *)
(***************************************************************************)
Frame(kind, l, v, n, len) ==
    [kind |-> kind, l |-> l, v |-> v, n |-> n,
     arr |-> IF kind = "set" THEN eventHandlers ELSE <<>>,
     len |-> len,
     idx |-> 0,
     shared |-> kind = "set",
     snap |-> IF kind = "set" THEN eventHandlers ELSE <<>>,
     called |-> <<>>,
     early |-> {}]

Range(seq) == { seq[i] : i \in DOMAIN seq }

\* History: no set has returned yet.
NoReturn ==
    [n |-> 0, v |-> Undefined, snap |-> <<>>, calls |-> <<>>, early |-> {},
     handlers |-> <<>>, value |-> Undefined, latest |-> FALSE]

\* History: no set has thrown yet. n is the write whose broadcast threw, by
\* the listener that threw, skipped the listeners the broadcast had not
\* called yet.
NoThrow == [n |-> 0, by |-> 0, skipped |-> <<>>]

Top == stack[Len(stack)]
Pop == SubSeq(stack, 1, Len(stack) - 1)

\* The program, or a listener that is running, may call the cell.
CanCall == IF stack = <<>> THEN TRUE ELSE Top.kind = "cb"

Broadcasting == \E i \in DOMAIN stack : stack[i].kind = "set"

InitCell(initialValue) ==
    /\ currentValue = initialValue
    /\ eventHandlers = <<>>
    /\ stack = <<>>
    /\ received = [l \in Listeners |-> <<>>]
    /\ writes = <<>>
    /\ cellLog = [subs |-> [l \in Listeners |-> 0],
                  at |-> [l \in Listeners |-> 0],
                  seen |-> [l \in Listeners |-> Undefined],
                  offed |-> {},
                  off |-> [l |-> 0, k |-> 0],
                  offAt |-> [l \in Listeners |-> -1],
                  nested |-> FALSE,
                  calls |-> 0,
                  ret |-> NoReturn,
                  thrown |-> NoThrow]

\* Obs.get
ObsGet ==
    /\ CanCall
    /\ currentValue \in Vals \cup {Undefined}
    /\ UNCHANGED vars

\* A set that does not notify when the value written is the current value.
BroadcastLengthIfChanged(value) ==
    IF value = currentValue THEN 0 ELSE Len(eventHandlers)

\* forEach: the length of the array, read once when the iteration begins.
BroadcastLength(value) == Len(eventHandlers)

\* Obs.set: this.currentValue = value, then forEach begins on the array that
\* this.eventHandlers holds now.
ObsSet(value) ==
    /\ CanCall
    /\ cellLog.calls < MaxCalls
    /\ currentValue' = value
    /\ stack' = Append(stack, Frame("set", 0, value, Len(writes) + 1,
                                   BroadcastLength(value)))
    /\ writes' = Append(writes, value)
    /\ cellLog' = [cellLog EXCEPT !.nested = @ \/ Broadcasting, !.calls = @ + 1]
    /\ UNCHANGED <<eventHandlers, received>>
    /\ UNCHANGED regVars

\* forEach visits the elements in reverse.
ElementReversed(f) == f.len - f.idx

\* forEach: the index (from 1) of the element visited next.
Element(f) == f.idx + 1

\* Obs.set, one iteration of forEach: listener(value) is called, unless the
\* array has no element at the index.
Deliver ==
    /\ stack # <<>>
    /\ Top.kind = "set"
    /\ Top.idx < Top.len
    /\ LET f == Top
           k == Element(f)
       IN  IF k \in DOMAIN f.arr
           THEN LET l == f.arr[k]
                IN  /\ received' = [received EXCEPT ![l] = Append(@, f.v)]
                    /\ stack' = Append(
                          [stack EXCEPT ![Len(stack)] =
                              [f EXCEPT !.idx = @ + 1, !.called = Append(@, l)]],
                          Frame("cb", l, f.v, f.n, 0))
           ELSE /\ stack' = [stack EXCEPT ![Len(stack)] = [f EXCEPT !.idx = @ + 1]]
                /\ UNCHANGED received
    /\ UNCHANGED <<currentValue, eventHandlers, writes, cellLog>>
    /\ UNCHANGED regVars

\* Obs.set returns: forEach has visited len elements.
SetReturn ==
    /\ stack # <<>>
    /\ Top.kind = "set"
    /\ Top.idx = Top.len
    /\ stack' = Pop
    /\ cellLog' = [cellLog EXCEPT !.ret =
                      [n |-> Top.n, v |-> Top.v, snap |-> Top.snap,
                       calls |-> Top.called, early |-> Top.early,
                       handlers |-> eventHandlers, value |-> currentValue,
                       latest |-> Top.n = Len(writes)]]
    /\ UNCHANGED <<currentValue, eventHandlers, received, writes>>
    /\ UNCHANGED regVars

\* A listener returns.
ListenerReturn ==
    /\ stack # <<>>
    /\ Top.kind = "cb"
    /\ stack' = Pop
    /\ UNCHANGED <<currentValue, eventHandlers, received, writes, cellLog>>
    /\ UNCHANGED regVars

\* The listener on top was called by a forEach (and not by the replay of
\* on): the frame below it is the set that called it.
CalledBySet ==
    /\ Len(stack) >= 2
    /\ stack[Len(stack) - 1].kind = "set"

\* A set that catches what a listener throws and goes on with the next
\* listener.
UnwindCaught(stk) == SubSeq(stk, 1, Len(stk) - 1)

\* The calls left when the listener on top of stk throws: listener(value) is
\* called inside forEach without try / catch, so the exception leaves the
\* listener, forEach and set, and reaches the caller of set; an exception
\* in the replay of on leaves the listener and on.
Unwind(stk) ==
    IF Len(stk) >= 2 /\ stk[Len(stk) - 1].kind = "set"
    THEN SubSeq(stk, 1, Len(stk) - 2)
    ELSE SubSeq(stk, 1, Len(stk) - 1)

\* A listener throws while it runs.
ListenerThrow ==
    /\ stack # <<>>
    /\ Top.kind = "cb"
    /\ stack' = Unwind(stack)
    /\ cellLog' = IF CalledBySet
                  THEN LET f == stack[Len(stack) - 1]
                       IN  [cellLog EXCEPT !.thrown =
                               [n |-> f.n, by |-> Top.l,
                                skipped |-> SubSeq(f.snap, f.idx + 1, f.len)]]
                  ELSE cellLog
    /\ UNCHANGED <<currentValue, eventHandlers, received, writes>>
    /\ UNCHANGED regVars

\* An on that never replays the current value.
ReplaysNever(value) == FALSE

\* Obs.on: if (this.currentValue !== undefined)
Replays(value) == value # Undefined

\* Obs.on: push on the array in this.eventHandlers (the array a forEach that
\* began on it still iterates), then the replay.
ObsOn(l) ==
    /\ CanCall
    /\ cellLog.calls < MaxCalls
    /\ eventHandlers' = Append(eventHandlers, l)
    /\ LET pushed == [i \in DOMAIN stack |->
                        IF stack[i].kind = "set" /\ stack[i].shared
                        THEN [stack[i] EXCEPT !.arr = Append(@, l)]
                        ELSE stack[i]]
       IN  IF Replays(currentValue)
           THEN /\ received' = [received EXCEPT ![l] = Append(@, currentValue)]
                /\ stack' = Append(pushed, Frame("cb", l, currentValue, Len(writes), 0))
           ELSE /\ stack' = pushed
                /\ UNCHANGED received
    /\ cellLog' = [cellLog EXCEPT !.calls = @ + 1,
                                  !.subs[l] = @ + 1,
                                  !.offAt[l] = -1,
                                  !.at[l] = Len(writes),
                                  !.seen[l] = currentValue]
    /\ UNCHANGED <<currentValue, writes>>
    /\ UNCHANGED regVars

\* An off that removes one registration, the first, of the listener.
WithoutFirst(handlers, l) ==
    IF \E i \in DOMAIN handlers : handlers[i] = l
    THEN LET i == CHOOSE j \in DOMAIN handlers :
                      /\ handlers[j] = l
                      /\ \A m \in 1..(j - 1) : handlers[m] # l
         IN  SubSeq(handlers, 1, i - 1) \o SubSeq(handlers, i + 1, Len(handlers))
    ELSE handlers

\* Obs.off: this.eventHandlers.filter(l => l !== listener)
Without(handlers, l) == SelectSeq(handlers, LAMBDA h : h # l)

\* An off that removes the listener from the array in place.
DetachedInPlace(f, l) ==
    IF f.kind = "set" /\ f.shared THEN [f EXCEPT !.arr = Without(@, l)] ELSE f

\* Obs.off: filter makes a new array; a forEach in progress keeps the old one.
Detached(f, l) == [f EXCEPT !.shared = FALSE]

\* History: l is unsubscribed before the broadcast of f has reached it.
NotedEarly(f, l) ==
    IF /\ f.kind = "set"
       /\ l \in Range(eventHandlers)
       /\ \E i \in (f.idx + 1)..Len(f.snap) : f.snap[i] = l
    THEN [f EXCEPT !.early = @ \cup {l}]
    ELSE f

\* Obs.off
ObsOff(l) ==
    /\ CanCall
    /\ cellLog.calls < MaxCalls
    /\ eventHandlers' = Without(eventHandlers, l)
    /\ stack' = [i \in DOMAIN stack |-> NotedEarly(Detached(stack[i], l), l)]
    /\ cellLog' = [cellLog EXCEPT
                      !.offed = IF l \in Range(eventHandlers) THEN @ \cup {l} ELSE @,
                      !.off = [l |-> l, k |-> cellLog.calls + 1],
                      !.offAt[l] = Len(writes),
                      !.calls = @ + 1]
    /\ UNCHANGED <<currentValue, received, writes>>
    /\ UNCHANGED regVars

\* new Obs(initialValue)
InitObs == InitRegistry /\ \E v \in Vals \cup {Undefined} : InitCell(v)

NextObs ==
    \/ ObsGet
    \/ \E v \in Vals : ObsSet(v)
    \/ Deliver
    \/ SetReturn
    \/ ListenerReturn
    \/ \E l \in Listeners : ObsOn(l)
    \/ \E l \in Listeners : ObsOff(l)

SpecObs == InitObs /\ [][NextObs]_vars

\* The cell with listeners that may throw.
NextObsThrow ==
    \/ NextObs
    \/ ListenerThrow

SpecObsThrow == InitObs /\ [][NextObsThrow]_vars

Init == InitRegistry /\ InitCell(Undefined)

Next ==
    \/ \E t \in Targets : Put(t[1], t[2])
    \/ \E t \in Targets : Find(t[1], t[2])
    \/ \E t \in Targets : Exists(t[1], t[2])
    \/ \E t \in Targets : Delete(t[1], t[2])
    \/ \E c \in Comps, t \in Targets : RenderUseGet(c, t[1], t[2])
    \/ \E c \in Comps : Mount(c)
    \/ \E c \in Comps : Unmount(c)

Spec == Init /\ [][Next]_vars

\* Components using useGet(ControllerClass, options) and nothing else.
NextUseGet ==
    \/ \E c \in Comps, t \in Targets : RenderUseGet(c, t[1], t[2])
    \/ \E c \in Comps : Mount(c)
    \/ \E c \in Comps : Unmount(c)

SpecUseGet == Init /\ [][NextUseGet]_vars

\* Components using useGet(tag, factory, {persist}) and nothing else.
NextHooks ==
    \/ \E c \in Comps, k \in Keys, p \in BOOLEAN : RenderUseGetTag(c, k, p)
    \/ \E c \in Comps : Mount(c)
    \/ \E c \in Comps : Unmount(c)

SpecHooks == Init /\ [][NextHooks]_vars

\* The runs of SpecHooks in which no commit both unmounts a component and
\* mounts another: a cleanup runs only when no rendered component still
\* waits for its effect.
UnmountAlone(c) ==
    /\ \A d \in Comps : comps[d].pc # "rendered"
    /\ Unmount(c)

NextSerial ==
    \/ \E c \in Comps, k \in Keys, p \in BOOLEAN : RenderUseGetTag(c, k, p)
    \/ \E c \in Comps : Mount(c)
    \/ \E c \in Comps : UnmountAlone(c)

SpecSerial == Init /\ [][NextSerial]_vars

\* The tag-based registry called directly, with controllers that have
\* lifecycle hooks (tag Ctl) and controllers that have none.
NextCache ==
    \/ \E raw \in RawTags : PutTag(raw)
    \/ \E raw \in RawTags : FindTag(raw)
    \/ \E raw \in RawTags : ExistsTag(raw)
    \/ \E raw \in RawTags : DeleteTag(raw)
    \/ \E i \in Inst, h \in Hooks, ok \in BOOLEAN : Settle(i, h, ok)

SpecCache == Init /\ [][NextCache]_vars

\* Components going through useGet(ControllerClass, options) and direct calls
\* of Get.delete, with a controller class that has lifecycle hooks (Sync)
\* and one that has none.
NextLife ==
    \/ \E t \in LifeTargets : Delete(t[1], t[2])
    \/ \E c \in Comps, t \in LifeTargets : RenderUseGet(c, t[1], t[2])
    \/ \E c \in Comps : Mount(c)
    \/ \E c \in Comps : Unmount(c)

SpecLife == Init /\ [][NextLife]_vars

\* Key derivation alone: each component starts with a class name and a tag
\* option, and derives the key of its count (useGet) and the key of the
\* registry (Get.buildTag, called by Get.put / Get.delete) from them.
Names == {"", "Todo", "AnonymousController"}
Suffixes == {"", "a", "a-b"}

DeriveKeys(c) ==
    /\ comps[c].pc = "props"
    /\ comps' = [comps EXCEPT
                   ![c].pc = "keyed",
                   ![c].tag = useGetTag(comps[c].props[1], comps[c].props[2]),
                   ![c].key = buildTag(comps[c].props[1], comps[c].props[2])]
    /\ UNCHANGED <<registry, nextInst, refCounts, made, given, persistSeen, last, life>>
    /\ UNCHANGED obsVars

InitKey ==
    /\ registry = EmptyMap
    /\ nextInst = 1
    /\ refCounts = EmptyMap
    /\ comps \in [Comps -> { [Unmounted EXCEPT !.pc = "props", !.props = <<n, x>>] :
                                n \in Names, x \in Suffixes }]
    /\ made = [k \in AllKeys |-> 0]
    /\ given = [k \in AllKeys |-> {}]
    /\ persistSeen = [k \in AllKeys |-> FALSE]
    /\ last = Note("none", "", FALSE)
    /\ life = NoLife
    /\ InitCell(Undefined)

NextKey == \E c \in Comps : DeriveKeys(c)

SpecKey == InitKey /\ [][NextKey]_vars

\* Components using useGetPut over Get (the hook next to Get) and nothing
\* else, on a tag of controllers with lifecycle hooks and one without.
NextPut ==
    \/ \E c \in Comps, k \in LifeKeys, p \in BOOLEAN : PutRender(c, k, p)
    \/ \E c \in Comps : PutEffect(c)
    \/ \E c \in Comps, fresh \in BOOLEAN : PutRerender(c, fresh)
    \/ \E c \in Comps : PutUnmount(c)

SpecPut == Init /\ [][NextPut]_vars

\* Components using useGetPut over GetRxCache and nothing else.
NextCachePut ==
    \/ \E c \in Comps, k \in LifeKeys, p \in BOOLEAN : CachePutRender(c, k, p)
    \/ \E c \in Comps : CachePutEffect(c)
    \/ \E c \in Comps, fresh \in BOOLEAN : CachePutRerender(c, fresh)
    \/ \E c \in Comps : CachePutRecommit(c)
    \/ \E c \in Comps : CachePutUnmount(c)

SpecCachePut == Init /\ [][NextCachePut]_vars

\* The tag-based registry called directly, with factories that return a
\* controller, return undefined or throw.
FactoryTags == { Str(k) : k \in FactoryKeys } \cup { Str("") }

NextFactory ==
    \/ \E raw \in FactoryTags, f \in Factories : PutFactory(raw, f)
    \/ \E raw \in FactoryTags : FindTag(raw)
    \/ \E raw \in FactoryTags : ExistsTag(raw)
    \/ \E raw \in FactoryTags : DeleteTag(raw)

SpecFactory == Init /\ [][NextFactory]_vars

(***************************************************************************)
(* Registry: create-or-reuse, lookup, eviction                             *)
(***************************************************************************)
\* C1: for every key, among the put calls made since the start or the last
\* delete of the key, the factory ran exactly once and all of the calls
\* returned one and the same entry.
PutConstructsOnce ==
    \A k \in Keys :
        given[k] # {} => made[k] = 1 /\ Cardinality(given[k]) = 1

\* A direct put on a key just returned, after the render of a component had
\* put the same key (no delete in between), and both got the stored entry.
PutTwiceReached ==
    \E k \in Keys, c \in Comps :
        /\ last.op = "put" /\ last.key = k
        /\ comps[c].pc # "idle" /\ comps[c].key = k
        /\ comps[c].ctrl \in given[k]
        /\ MapGet(registry, k) = comps[c].ctrl

\* C6: for every key, as long as no put of the key happened since the start
\* or since its last delete, find returns undefined and exists is false.
FindAbsentWithoutPut ==
    \A k \in Keys :
        given[k] = {} => GetFind(k) = Undefined /\ ~GetExists(k)

\* delete(k) just ran on a key that a component's render had put before.
DeleteAfterPutReached ==
    \E k \in Keys, c \in Comps :
        /\ last.op = "delete" /\ last.key = k
        /\ comps[c].pc # "idle" /\ comps[c].key = k /\ comps[c].ctrl # Undefined
        /\ given[k] = {}
        /\ GetFind(k) = Undefined

(***************************************************************************)
(* useGet: shared instance and reference counting                          *)
(***************************************************************************)
\* C2: every mounted component holds the entry that the registry stores
\* under the component's key, so that all mounted components of one key
\* hold one and the same instance.
MountedShareRegistryEntry ==
    /\ \A c \in Comps :
          comps[c].pc = "mounted" =>
              /\ GetExists(comps[c].key)
              /\ GetFind(comps[c].key) = comps[c].ctrl
    /\ \A c, d \in Comps :
          (/\ comps[c].pc = "mounted" /\ comps[d].pc = "mounted"
           /\ comps[c].key = comps[d].key) => comps[c].ctrl = comps[d].ctrl

\* C3: whenever the count of a key is greater than 0, the registry holds an
\* entry for the key.
CountedKeyHasEntry ==
    \A k \in DOMAIN refCounts : refCounts[k] > 0 => GetExists(k)

\* C4: after a release that leaves no component bound to its key, on a key
\* whose bindings were all made with persist = false, the entry is evicted:
\* exists is false and find returns undefined.
LastReleaseEvicts ==
    \A k \in Keys :
        (/\ last.op = "release" /\ last.key = k
         /\ Bound(k) = {}
         /\ ~persistSeen[k]) => ~GetExists(k) /\ GetFind(k) = Undefined

\* The last bound component of a key just released it, without persist, and
\* the other component has rendered the same key and not mounted yet.
LastReleaseReached ==
    \E k \in Keys, c \in Comps :
        /\ last.op = "release" /\ last.key = k /\ ~last.flag
        /\ Bound(k) = {}
        /\ ~persistSeen[k]
        /\ comps[c].pc = "rendered" /\ comps[c].tag = k

\* C5: once a binding of a key declared persist = true and no component is
\* bound to the key any more, the entry is still in the registry.
PersistentEntrySurvives ==
    \A k \in Keys :
        (persistSeen[k] /\ Bound(k) = {}) => GetExists(k)
(***************************************************************************)
(* Obs: delivery                                                           *)
(***************************************************************************)
\* No call of the cell is in progress, and no set was entered while a
\* broadcast was in progress.
Sequential == stack = <<>> /\ ~cellLog.nested

\* The listener was subscribed by exactly one call of on and not
\* unsubscribed since.
SubscribedOnce(l) == cellLog.subs[l] = 1 /\ l \notin cellLog.offed

\* The values written after the (last) subscription of l.
WrittenSince(l) == SubSeq(writes, cellLog.at[l] + 1, Len(writes))

\* C7: a listener subscribed once, before any write, on a cell without a
\* value, has been called with exactly the values written, in the order
\* they were written (set(v1) then set(v2): v1, then v2, nothing else).
WritesReceivedInOrder ==
    Sequential =>
        \A l \in Listeners :
            (/\ SubscribedOnce(l)
             /\ cellLog.at[l] = 0
             /\ cellLog.seen[l] = Undefined) => received[l] = writes

\* Two different values were written one after the other and a listener
\* subscribed before both got the first, then the second.
TwoWritesReceived ==
    /\ Sequential
    /\ Len(writes) = 2
    /\ writes[1] # writes[2]
    /\ \E l \in Listeners :
          /\ SubscribedOnce(l)
          /\ cellLog.at[l] = 0
          /\ cellLog.seen[l] = Undefined
          /\ received[l] = <<writes[1], writes[2]>>

\* C8: a listener subscribed (once) while the cell had a value was called
\* with that value by on itself, once, and after that only with values of
\* later writes; a listener subscribed while the cell had no value is not
\* called before the next write.
ReplayOnSubscribe ==
    \A l \in Listeners :
        SubscribedOnce(l) =>
            IF cellLog.seen[l] # Undefined
            THEN /\ received[l] # <<>>
                 /\ Head(received[l]) = cellLog.seen[l]
                 /\ Len(received[l]) <= 1 + Len(WrittenSince(l))
                 /\ \A i \in 2..Len(received[l]) :
                       received[l][i] \in Range(WrittenSince(l))
                 /\ Sequential => Tail(received[l]) = WrittenSince(l)
            ELSE /\ Len(writes) = cellLog.at[l] => received[l] = <<>>
                 /\ Sequential => received[l] = WrittenSince(l)

\* A listener subscribed after a write got the replay and then the value of
\* the next write.
ReplayThenWriteReceived ==
    /\ Sequential
    /\ \E l \in Listeners :
          /\ SubscribedOnce(l)
          /\ cellLog.at[l] >= 1
          /\ cellLog.seen[l] = writes[cellLog.at[l]]
          /\ Len(writes) > cellLog.at[l]
          /\ received[l] = <<cellLog.seen[l]>> \o WrittenSince(l)

\* The broadcasts in progress.
Broadcasts == { i \in DOMAIN stack : stack[i].kind = "set" }

\* C9: set stores the value before it calls any listener (the cell holds the
\* value of the latest set, also while listeners run), calls the listeners
\* registered when it began in their order of registration, each with the
\* value written, and has called all of them when it returns.
SetStoresThenCallsInOrder ==
    /\ writes # <<>> => currentValue = writes[Len(writes)]
    /\ \A i \in Broadcasts :
          /\ stack[i].called = SubSeq(stack[i].snap, 1, Len(stack[i].called))
          /\ stack[i].v = writes[stack[i].n]
          /\ i < Len(stack) /\ stack[i + 1].kind = "cb" =>
                /\ stack[i + 1].v = stack[i].v
                /\ stack[i + 1].l = stack[i].called[Len(stack[i].called)]
                /\ stack[i].n = Len(writes) => currentValue = stack[i].v
    /\ cellLog.ret.n > 0 =>
          /\ cellLog.ret.calls = cellLog.ret.snap
          /\ cellLog.ret.latest => cellLog.ret.value = cellLog.ret.v

\* A set has returned after calling two different listeners, and the cell
\* holds the value it wrote.
SetReturnedAfterTwoCalls ==
    /\ stack = <<>>
    /\ cellLog.ret.n > 0
    /\ Len(cellLog.ret.snap) >= 2
    /\ cellLog.ret.snap[1] # cellLog.ret.snap[2]
    /\ cellLog.ret.calls = cellLog.ret.snap
    /\ currentValue = cellLog.ret.v

\* C10: the listeners a broadcast calls are exactly the handlers registered
\* when it began, whatever on and off do while it runs: the elements forEach
\* iterates stay those handlers, a listener unsubscribed before the broadcast
\* reached it is still called, and one subscribed meanwhile is not.
BroadcastUsesSnapshot ==
    /\ \A i \in Broadcasts :
          LET f == stack[i]
          IN  /\ f.len = Len(f.snap)
              /\ Len(f.arr) >= f.len
              /\ \A k \in 1..f.len : f.arr[k] = f.snap[k]
              /\ Len(f.called) = f.idx
              /\ \A k \in 1..Len(f.called) : f.called[k] = f.snap[k]
    /\ (cellLog.ret.n > 0 /\ cellLog.ret.handlers # cellLog.ret.snap) =>
          cellLog.ret.calls = cellLog.ret.snap

\* A broadcast has returned during which an earlier listener unsubscribed a
\* later one, which was still called.
UnsubscribedStillCalled ==
    /\ cellLog.ret.n > 0
    /\ cellLog.ret.early # {}
    /\ \E l \in cellLog.ret.early :
          /\ l \notin Range(cellLog.ret.handlers)
          /\ l \in Range(cellLog.ret.calls)
    /\ cellLog.ret.calls = cellLog.ret.snap

(***************************************************************************)
(* Obs: unsubscribe, one broadcast per write                               *)
(***************************************************************************)
\* The step is a call of off, for the listener cellLog'.off.l.
OffStep ==
    /\ cellLog'.calls = cellLog.calls + 1
    /\ cellLog'.off.k = cellLog'.calls

\* The registrations of listeners other than l, in their order.
Others(handlers, l) ==
    [i \in 1..Cardinality({j \in DOMAIN handlers : handlers[j] # l}) |->
        handlers[CHOOSE j \in DOMAIN handlers :
                    /\ handlers[j] # l
                    /\ Cardinality({m \in 1..j : handlers[m] # l}) = i]]

\* C11: off(cb) leaves no registration of cb, however many there were, and
\* leaves the registrations of the other listeners and their order as they
\* were; off of a listener that is not registered changes nothing; and from
\* the off on (until cb is subscribed again) no write calls cb.
OffRemovesEveryRegistration ==
    /\ [][OffStep =>
            /\ cellLog'.off.l \notin Range(eventHandlers')
            /\ Others(eventHandlers', cellLog'.off.l)
                  = Others(eventHandlers, cellLog'.off.l)
            /\ cellLog'.off.l \notin Range(eventHandlers) =>
                  /\ eventHandlers' = eventHandlers
                  /\ currentValue' = currentValue
                  /\ received' = received]_vars
    /\ [](\A l \in Listeners :
            cellLog.offAt[l] >= 0 =>
                /\ l \notin Range(eventHandlers)
                /\ \A i \in Broadcasts :
                      stack[i].n > cellLog.offAt[l] =>
                          l \notin Range(stack[i].called)
                /\ cellLog.ret.n > cellLog.offAt[l] =>
                      l \notin Range(cellLog.ret.calls))

\* A listener was subscribed twice and unsubscribed by one off, and a write
\* made after that has returned without calling it.
TwiceSubscribedThenSilent ==
    \E l \in Listeners :
        /\ cellLog.subs[l] = 2
        /\ cellLog.offAt[l] = 0
        /\ stack = <<>>
        /\ cellLog.ret.n = 1
        /\ received[l] = <<>>

\* The calls on(l) itself makes for one registration: the replay.
ReplayCalls(l) == IF cellLog.seen[l] # Undefined THEN 1 ELSE 0

\* C12: when no call of the cell is in progress, a listener that was never
\* unsubscribed has been called, for each of its registrations, once per
\* write made since the registration (plus the replay of on), whatever the
\* values written: n writes, n calls per registration.
OneBroadcastPerWrite ==
    stack = <<>> =>
        \A l \in Listeners :
            (cellLog.subs[l] >= 1 /\ l \notin cellLog.offed) =>
                /\ cellLog.at[l] = 0 =>
                      Len(received[l])
                          = cellLog.subs[l] * (ReplayCalls(l) + Len(writes))
                /\ cellLog.subs[l] = 1 =>
                      Len(received[l])
                          = ReplayCalls(l) + Len(writes) - cellLog.at[l]

\* The same value was written twice and a listener with two registrations,
\* both made before the writes, has been called four times.
SameValueTwiceReceived ==
    /\ Sequential
    /\ Len(writes) = 2
    /\ writes[1] = writes[2]
    /\ \E l \in Listeners :
          /\ cellLog.subs[l] = 2
          /\ cellLog.at[l] = 0
          /\ l \notin cellLog.offed
          /\ received[l] = <<writes[1], writes[1], writes[1], writes[1]>>

(***************************************************************************)
(* Registry: malformed keys, lifecycle hooks                               *)
(***************************************************************************)
\* The hook calls and promises so far.
HookState(lf) == [lf EXCEPT !.out = NoCall, !.raised = FALSE]

\* The operation that ran last was called with an empty or non-string key.
Malformed(note) ==
    /\ note.op \in {"find", "put", "delete", "exists"}
    /\ note.key = "" \/ note.type # "string"

\* C13: find, put, delete and exists called with an empty or non-string key
\* throw to the caller at once: no factory runs, no hook is called and the
\* registry is as it was.
MalformedKeyFails ==
    [][Malformed(last') =>
          /\ life'.raised
          /\ registry' = registry
          /\ nextInst' = nextInst
          /\ made' = made
          /\ HookState(life') = HookState(life)]_vars

\* put was just called with a non-string key while the registry held an
\* entry, and it threw.
MalformedPutThrew ==
    /\ last.op = "put"
    /\ last.type = "number"
    /\ life.raised
    /\ DOMAIN registry # {}

\* The step is a well-formed call of op (put, delete) of the registry.
Called(op) == last'.op = op /\ ~Malformed(last') /\ vars' # vars

\* C14: a hook that fails never reaches the caller and never blocks the
\* operation: a put whose onInit throws (or returns a promise, which may
\* reject) has stored the new entry and returned it; a delete whose onClose
\* throws (or returns a promise) has removed the entry; a rejection changes
\* nothing in the registry; and after any failure, put and delete work as
\* before.
HookFailureIsolated ==
    [][/\ life'.out.out \in {"throws", "promise"} =>
             /\ ~life'.raised
             /\ life'.out.h = "onInit" =>
                   /\ last'.op = "put"
                   /\ MapGet(registry', last'.key) = life'.out.i
                   /\ life'.out.i \in given'[last'.key]
             /\ life'.out.h = "onClose" =>
                   /\ last'.op = "delete"
                   /\ MapGet(registry, last'.key) = life'.out.i
                   /\ ~MapHas(registry', last'.key)
       /\ life'.out.out = "rejects" =>
             /\ ~life'.raised
             /\ registry' = registry
       /\ life.failed # {} =>
             /\ Called("put") =>
                   /\ ~life'.raised
                   /\ Truthy(MapGet(registry', last'.key))
                   /\ MapGet(registry', last'.key) \in given'[last'.key]
             /\ Called("delete") =>
                   /\ ~life'.raised
                   /\ ~MapHas(registry', last'.key)]_vars

\* After an onInit that rejected and an onClose that threw, a put on another
\* key stored and returned its entry.
PutAfterHookFailures ==
    /\ "onInit" \in life.reported
    /\ "onClose" \in life.unhandled
    /\ last.op = "put"
    /\ last.key = "Todo-a"
    /\ ~life.raised
    /\ MapGet(registry, "Todo-a") \in given["Todo-a"]

\* C15: every failure of onInit or onClose, thrown or rejected, is caught and
\* passed to console.error; none is left as a rejection nobody handles.
HookFailuresReported ==
    /\ life.unhandled = {}
    /\ life.failed \subseteq life.reported

DeleteMissingIsNoOp ==
    [][(Called("delete") /\ ~MapHas(registry, last'.key)) =>
          /\ ~life'.raised
          /\ life'.out = NoCall
          /\ HookState(life') = HookState(life)
          /\ registry' = registry]_vars

\* delete just ran on the key of controllers with hooks, a second time: the
\* entry was closed by the first delete, this one called no hook, and the
\* entry of the other key is still there.
DeletedTwice ==
    /\ last.op = "delete"
    /\ last.key = "Ctl"
    /\ life.out = NoCall
    /\ ~life.raised
    /\ \E i \in Inst : life.close[i] = 1
    /\ MapHas(registry, "Todo-a")

\* C18: onInit is called once for every entry put creates, by the put that
\* creates it and after the entry is stored; a put that returns an existing
\* entry, find and exists call no onInit.
OnInitOncePerCreation ==
    /\ [](/\ "onInit" \notin life.unstored
          /\ \A i \in Inst :
                /\ life.init[i] <= 1
                /\ i >= nextInst => life.init[i] = 0)
    /\ [][/\ (nextInst' # nextInst /\ Hooked(last'.key)) =>
                /\ life'.init = [life.init EXCEPT ![nextInst] = 1]
                /\ life'.out.h = "onInit"
                /\ life'.out.i = nextInst
                /\ MapGet(registry', last'.key) = nextInst
          /\ nextInst' = nextInst => life'.init = life.init]_vars

\* A put on the key of controllers with hooks returned the entry an earlier
\* put had created: no hook call was made, onInit of the entry ran once.
PutReusedHookedEntry ==
    /\ last.op = "put"
    /\ last.key = "Ctl"
    /\ life.out = NoCall
    /\ ~life.raised
    /\ MapGet(registry, "Ctl") \in Inst
    /\ life.init[MapGet(registry, "Ctl")] = 1

\* The step evicts the entry of key k.
Evicts(k) == MapHas(registry, k) /\ ~MapHas(registry', k)

\* The step is the cleanup of a component that was the last one counted on
\* its key: the count of the key drops to zero.
DropsToZero(k) ==
    /\ last'.op = "release" /\ last'.key = k
    /\ \E c \in Comps : comps[c].pc = "mounted" /\ comps'[c].pc = "idle"
    /\ ~MapHas(refCounts', k)

\* C19: onClose is called at most once per entry, by the step that evicts
\* the entry and while the entry is still stored, and every eviction of an
\* entry that has the hook calls it; a drop of the count to zero evicts the
\* entry stored under the key and nothing else: one eviction, one onClose.
OnCloseOncePerEviction ==
    /\ [](/\ "onClose" \notin life.unstored
          /\ \A i \in Inst :
                /\ life.close[i] <= 1
                /\ life.close[i] = 1 => \A k \in DOMAIN registry : registry[k] # i)
    /\ [][/\ \A k \in AllKeys :
                (Evicts(k) /\ Hooked(k)) =>
                    /\ life'.close = [life.close EXCEPT ![registry[k]] = 1]
                    /\ life'.out.h = "onClose"
                    /\ life'.out.i = registry[k]
          /\ life'.close # life.close => \E k \in AllKeys : Evicts(k)
          /\ \A k \in AllKeys :
                DropsToZero(k) =>
                    /\ ~MapHas(registry', k)
                    /\ DOMAIN registry' = DOMAIN registry \ {k}
                    /\ \A j \in DOMAIN registry' : registry'[j] = registry[j]]_vars

\* The cleanup of the last component bound to a key of controllers with
\* hooks evicted the entry and called its onClose, after an earlier entry of
\* the key had been closed by a delete.
ReleaseClosedSecondEntry ==
    /\ last.op = "release"
    /\ last.key = "Sync"
    /\ life.out.h = "onClose"
    /\ ~MapHas(registry, "Sync")
    /\ ~MapHas(refCounts, "Sync")
    /\ Cardinality({i \in Inst : life.close[i] = 1}) = 2

(***************************************************************************)
(* Key derivation                                                          *)
(***************************************************************************)
\* C20: the key is a function of the class name and the tag option alone:
\* base is the name, or "AnonymousController" for an empty name; the key is
\* base-tag for a non-empty tag and base otherwise; and the key the hook
\* computes for its count is the key the registry computes.
KeyDerivation ==
    /\ \A c \in Comps :
          comps[c].pc = "keyed" =>
              LET name == comps[c].props[1]
                  tag == comps[c].props[2]
                  base == IF name = "" THEN "AnonymousController" ELSE name
              IN  /\ tag = "" => comps[c].key = base
                  /\ tag # "" => comps[c].key = base \o "-" \o tag
                  /\ comps[c].tag = comps[c].key
    /\ \A c, d \in Comps :
          (/\ comps[c].pc = "keyed" /\ comps[d].pc = "keyed"
           /\ comps[c].props = comps[d].props) =>
              comps[c].key = comps[d].key /\ comps[c].tag = comps[d].tag

\* A component of an anonymous class with a tag and a component of a named
\* class without a tag have derived their keys.
KeysDerived ==
    \E c, d \in Comps :
        /\ comps[c].pc = "keyed" /\ comps[c].props = <<"", "a">>
        /\ comps[c].key = "AnonymousController-a" /\ comps[c].tag = "AnonymousController-a"
        /\ comps[d].pc = "keyed" /\ comps[d].props = <<"Todo", "">>
        /\ comps[d].key = "Todo" /\ comps[d].tag = "Todo"

(***************************************************************************)
(* useGet: the release, the count                                          *)
(***************************************************************************)
\* The step is the release (effect cleanup) of component c.
Releases(c) == comps[c].pc = "mounted" /\ comps'[c].pc = "idle"

CountIsBoundObservers ==
    /\ \A k \in AllKeys : MapGet(refCounts, k) = Cardinality(Bound(k))
    /\ \A k \in DOMAIN refCounts : refCounts[k] >= 1
    /\ \A k \in AllKeys : Bound(k) = {} => ~MapHas(refCounts, k)

\* A release just took the count of a key from 2 to 1, one component still
\* being bound to the key.
CountBackToOneReached ==
    \E k \in Keys :
        /\ last.op = "release" /\ last.key = k
        /\ MapGet(refCounts, k) = 1
        /\ Cardinality(Bound(k)) = 1

(***************************************************************************)
(* Registry: eviction and the hooks in flight                              *)
(***************************************************************************)
\* C23: an eviction does not cancel the onInit in flight: the step that
\* removes an entry whose onInit promise is pending calls its onClose and
\* leaves that promise pending; and when the promise of an onInit settles,
\* of an entry stored or evicted, the registry, the reference counts and
\* the hook calls made are as they were.
EvictionKeepsInitInFlight ==
    [][/\ \A k \in AllKeys :
             (Evicts(k) /\ <<registry[k], "onInit">> \in life.pending) =>
                 /\ <<registry[k], "onInit">> \in life'.pending
                 /\ life'.close[registry[k]] = 1
                 /\ life'.out.h = "onClose" /\ life'.out.i = registry[k]
       /\ \A i \in Inst :
             (<<i, "onInit">> \in life.pending \ life'.pending) =>
                 /\ registry' = registry
                 /\ refCounts' = refCounts
                 /\ nextInst' = nextInst
                 /\ life'.init = life.init
                 /\ life'.close = life.close
                 /\ ~life'.raised]_vars

\* The promise of onInit of an entry just settled after the entry had been
\* evicted and its onClose called; the registry holds a later entry.
InitSettledAfterEviction ==
    /\ last.op = "settle"
    /\ life.out.h = "onInit"
    /\ life.out.i \in Inst
    /\ life.close[life.out.i] = 1
    /\ \A k \in DOMAIN registry : registry[k] # life.out.i
    /\ MapGet(registry, "Ctl") \in Inst

\* C24: delete waits for an asynchronous onClose before it removes the entry:
\* as long as the promise of onClose of an entry is pending, the entry is
\* in the registry.
EntryStoredUntilCloseSettles ==
    \A p \in life.pending :
        p[2] = "onClose" => \E k \in DOMAIN registry : registry[k] = p[1]

(***************************************************************************)
(* useGetPut                                                               *)
(***************************************************************************)
\* C25: with persist = false, the unmount of a component while another
\* component using the same tag is still mounted leaves the registry as it
\* was and calls no onClose; the unmount of the last one removes the entry.
LastUnmountEvicts ==
    [][\A c \in Comps :
          (Releases(c) /\ ~comps[c].persist) =>
              IF \E d \in Comps \ {c} :
                    comps[d].pc = "mounted" /\ comps[d].tag = comps[c].tag
              THEN /\ registry' = registry
                   /\ life'.close = life.close
              ELSE ~MapHas(registry', comps[c].tag)]_vars

\* C30: a re-render of a mounted component with the same tag, and the commit
\* that follows it, whatever factory function is passed, returns the
\* controller the component already had, runs no factory, evicts no entry
\* and calls no hook.
RerenderKeepsController ==
    [][last'.op \in {"rerender", "recommit"} =>
          /\ \A c \in Comps : comps'[c].ctrl = comps[c].ctrl
          /\ nextInst' = nextInst
          /\ registry' = registry
          /\ life'.init = life.init
          /\ life'.close = life.close]_vars

(***************************************************************************)
(* Obs: writes made by listeners                                           *)
(***************************************************************************)
\* C28: whenever a write has returned and no call of the cell is in
\* progress, every registered listener was called last with the value the
\* cell holds, also when listeners wrote to the cell during a broadcast.
LatestValueDeliveredLast ==
    (stack = <<>> /\ cellLog.ret.n > 0) =>
        \A l \in Range(eventHandlers) :
            /\ received[l] # <<>>
            /\ received[l][Len(received[l])] = currentValue

(***************************************************************************)
(* Registry: receivers of the hooks, factories that fail                   *)
(***************************************************************************)
\* C26: the registry calls onInit and onClose with the entry as this: every
\* call of a hook written as a method that writes this.<cell> has written
\* the cell of its entry.
HooksRunOnEntry ==
    \A i \in Inst :
        /\ life.init[i] >= 1 => <<i, "onInit">> \in life.wrote
        /\ life.close[i] >= 1 => <<i, "onClose">> \in life.wrote

FactoryThrowLeavesNoEntry ==
    [][/\ (life'.out.h = "factory" /\ vars' # vars) =>
             /\ life'.raised
             /\ last'.op = "put"
             /\ registry' = registry
             /\ MapGet(registry', last'.key) = Undefined
             /\ nextInst' = nextInst
             /\ life'.init = life.init
             /\ life'.close = life.close
             /\ given' = given
       /\ (/\ Called("put")
           /\ "factory" \in life.failed
           /\ ~MapHas(registry, last'.key)
           /\ ~life'.raised) =>
             /\ MapGet(registry', last'.key) = nextInst
             /\ nextInst' = nextInst + 1
             /\ made'[last'.key] = made[last'.key] + 1
             /\ given'[last'.key] = {nextInst}
             /\ Hooked(last'.key) => life'.init[nextInst] = 1]_vars

\* A put on the key of controllers with hooks created and returned the
\* entry, after a put on the same key whose factory threw; no factory ever
\* returned undefined.
PutAfterFactoryThrew ==
    /\ last.op = "put"
    /\ last.key = "User"
    /\ ~life.raised
    /\ "factory" \in life.failed
    /\ "instance.onInit" \notin life.failed
    /\ made["User"] = 2
    /\ MapGet(registry, "User") \in Inst
    /\ given["User"] = {MapGet(registry, "User")}
    /\ life.init[MapGet(registry, "User")] = 1

(***************************************************************************)
(* Obs: a listener that throws                                             *)
(***************************************************************************)
\* The step is a throw of the listener on top, called by a broadcast.
ThrowStep ==
    /\ stack # <<>>
    /\ Top.kind = "cb"
    /\ CalledBySet
    /\ Len(stack') < Len(stack)
    /\ cellLog'.ret = cellLog.ret
    /\ cellLog'.thrown.by = Top.l
    /\ cellLog'.thrown.n = stack[Len(stack) - 1].n

\* C31: when a listener throws during the broadcast of set(v), the cell
\* holds the value of the latest write (v, unless a listener wrote since)
\* and keeps it; the exception leaves set and reaches the caller of set; the
\* broadcast has called the listeners up to the one that threw and calls no
\* listener after it; and the listeners registered are as they were.
ThrowLeavesSetAtListener ==
    [][ThrowStep =>
          LET f == stack[Len(stack) - 1]
          IN  /\ currentValue = writes[Len(writes)]
              /\ f.n = Len(writes) => currentValue = f.v
              /\ currentValue' = currentValue
              /\ stack' = SubSeq(stack, 1, Len(stack) - 2)
              /\ f.called = SubSeq(f.snap, 1, f.idx)
              /\ f.called[f.idx] = Top.l
              /\ cellLog'.thrown.skipped = SubSeq(f.snap, f.idx + 1, Len(f.snap))
              /\ received' = received
              /\ eventHandlers' = eventHandlers]_vars

\* The first of two listeners threw in the broadcast of the only write: the
\* write is over, the cell holds its value, and the second listener, still
\* registered, was never called.
SecondListenerSkipped ==
    /\ stack = <<>>
    /\ Len(writes) = 1
    /\ cellLog.thrown.n = 1
    /\ currentValue = writes[1]
    /\ cellLog.ret.n = 0
    /\ \E l \in Range(cellLog.thrown.skipped) :
          /\ l # cellLog.thrown.by
          /\ l \in Range(eventHandlers)
          /\ received[l] = <<>>

(***************************************************************************)
(* Registry and useGet: after an eviction                                  *)
(***************************************************************************)
\* The step stores an entry under a key that had none.
Creates(k) == ~MapHas(registry, k) /\ MapHas(registry', k)

\* The step is the effect (bind) of component c.
Binds(c) == comps[c].pc = "rendered" /\ comps'[c].pc = "mounted"

\* C32: nothing of an evicted entry survives: the step that evicts the entry
\* of a key leaves no count record of the key; the step that next stores an
\* entry under the key has run the factory, stores an object never stored
\* before and calls its onInit; and a bind on a key without a count record
\* sets the count to 1 and binds the component to the entry stored under
\* the key.
EvictionLeavesNothing ==
    [][/\ \A k \in AllKeys :
             /\ Evicts(k) => ~MapHas(refCounts', k)
             /\ Creates(k) =>
                   /\ registry'[k] = nextInst
                   /\ nextInst' = nextInst + 1
                   /\ made'[k] = 1
                   /\ Hooked(k) =>
                         /\ life'.init[nextInst] = 1
                         /\ life'.out.h = "onInit"
       /\ \A c \in Comps :
             (Binds(c) /\ ~MapHas(refCounts, comps[c].tag)) =>
                 /\ refCounts'[comps[c].tag] = 1
                 /\ MapHas(registry', comps[c].key)
                 /\ registry'[comps[c].key] = comps[c].ctrl]_vars
====
